---- MODULE Spec2Model ----
(***************************************************************************)
(* Model of build.py, the WASI compatibility matrix harness: test          *)
(* discovery, the per-test specification load, the per-(test, runner)      *)
(* cell (sandbox provisioning, engine launch, classification) and the      *)
(* rendering of index.html.                                                *)
(*                                                                         *)
(* Text (stdout, stderr, expectations) is a sequence of one-character      *)
(* strings so that the text-mode decoding of subprocess.run is modelled    *)
(* by what it does.  A Python dict is a sequence of <<key, value>> pairs   *)
(* with distinct keys, in insertion order.                                 *)
(***************************************************************************)
EXTENDS Integers, Sequences, FiniteSets, TLC

VARIABLES tests, pc, ti, ri, testspec, testresults, tempdirs, written,
          last, exc, report

vars == <<tests, pc, ti, ri, testspec, testresults, tempdirs, written,
          last, exc, report>>

-----------------------------------------------------------------------------
(* Bounds *)

NumTests == 2
MaxEnv == 2
MaxPreopens == 2
MaxArgs == 2

-----------------------------------------------------------------------------
(* Python dict, insertion ordered *)

DictHas(d, k) == \E i \in 1..Len(d) : d[i][1] = k

DictGet(d, k) == d[CHOOSE i \in 1..Len(d) : d[i][1] = k][2]

DictKeys(d) == [i \in 1..Len(d) |-> d[i][1]]

DictSet(d, k, v) ==
    IF DictHas(d, k)
    THEN [i \in 1..Len(d) |-> IF d[i][1] = k THEN <<k, v>> ELSE d[i]]
    ELSE Append(d, <<k, v>>)

-----------------------------------------------------------------------------
(* Test discovery *)

TestPool == <<"tests/a.wasm", "tests/b.wasm", "tests/c.wasm", "tests/d.wasm">>

RECURSIVE sorted(_)
sorted(S) ==
    IF S = {} THEN <<>>
    ELSE LET m == CHOOSE x \in S : \A y \in S : x <= y
         IN  <<TestPool[m]>> \o sorted(S \ {m})

abspath(p) == "/cwd/" \o p

-----------------------------------------------------------------------------
(* Test specification documents *)

A_NL == <<"a", "\n">>
A_CRNL == <<"a", "\r", "\n">>
B_TXT == <<"b">>

\* testspec.get(field, None) != None
IsSet(spec, field) == field \in spec.present

MkSpec(present, stdin, stdout, stderr, exitCode, env, preopens, args) ==
    [present |-> present, stdin |-> stdin, stdout |-> stdout,
     stderr |-> stderr, exitCode |-> exitCode,
     env |-> env, preopens |-> preopens, args |-> args]

NoSpec == MkSpec({}, <<>>, <<>>, <<>>, 0, <<>>, <<>>, <<>>)

\* Every combination of the three expectation fields.
ExpectDocs ==
    { MkSpec(p, <<>>, IF "stdout" \in p THEN A_NL ELSE <<>>,
             IF "stderr" \in p THEN A_NL ELSE <<>>,
             IF "exitCode" \in p THEN e ELSE 0, <<>>, <<>>, <<>>) :
        p \in SUBSET {"stdout", "stderr", "exitCode"}, e \in {0, 1} }

\* The documents a harness run draws from: all three expectations, none of
\* them, and one with stdin, env, preopens and args.
SpecDocs ==
    { MkSpec({"stdout", "stderr", "exitCode"}, <<>>, A_NL, A_NL, 0,
             <<>>, <<>>, <<>>),
      MkSpec({}, <<>>, <<>>, <<>>, 0, <<>>, <<>>, <<"x", "--">>),
      MkSpec({"stdin", "stdout"}, <<"h", "i">>, A_NL, <<>>, 0,
             << <<"K1", "v1">> >>, << <<"/g1", "fixtures">> >>,
             <<"--flag">>) }

-----------------------------------------------------------------------------
(* subprocess.run in text mode *)

\* encoding="utf8" opens the pipes in text mode with universal newlines
RECURSIVE TextDecode(_)
TextDecode(raw) ==
    IF raw = <<>> THEN <<>>
    ELSE IF raw[1] = "\r"
         THEN IF Len(raw) >= 2 /\ raw[2] = "\n"
              THEN <<"\n">> \o TextDecode(SubSeq(raw, 3, Len(raw)))
              ELSE <<"\n">> \o TextDecode(Tail(raw))
         ELSE <<raw[1]>> \o TextDecode(Tail(raw))

RawOuts == {A_NL, A_CRNL, B_TXT}
RawErrs == {A_NL, B_TXT}
ExitCodes == {0, 1}

\* What the operating system does with one launch.
MkOutcome(kind, rc, out, err) ==
    [kind |-> kind, returncode |-> rc, stdout |-> out, stderr |-> err]

Outcomes ==
    { MkOutcome("write_error", 0, <<>>, <<>>),
      MkOutcome("not_started", 0, <<>>, <<>>) }
    \cup { MkOutcome("ran", rc, o, e) :
             rc \in ExitCodes, o \in RawOuts, e \in RawErrs }

\* The outcomes a harness run draws from (the working directory is writable).
RunOutcomes ==
    { MkOutcome("not_started", 0, <<>>, <<>>),
      MkOutcome("ran", 0, A_NL, A_NL),
      MkOutcome("ran", 0, A_NL, B_TXT),
      MkOutcome("ran", 0, A_CRNL, A_NL),
      MkOutcome("ran", 1, A_NL, A_NL),
      MkOutcome("ran", 0, B_TXT, A_NL) }

\* The CompletedProcess of an outcome of kind "ran".
CompletedProcess(outcome) ==
    [returncode |-> outcome.returncode,
     stdout |-> TextDecode(outcome.stdout),
     stderr |-> TextDecode(outcome.stderr)]

-----------------------------------------------------------------------------
(* run_test: launch the command in the sandbox and check the expectations *)

Returned == ""

\* run_test without the check_returncode() branch
run_test_unchecked(testcmd, testdir, tspec, outcome) ==
    IF outcome.kind = "not_started" THEN "FileNotFoundError"
    ELSE LET process == CompletedProcess(outcome) IN
         IF IsSet(tspec, "stdout") /\ tspec.stdout # process.stdout
         THEN "AssertionError"
         ELSE IF IsSet(tspec, "exitCode")
                 /\ tspec.exitCode # process.returncode
         THEN "AssertionError"
         ELSE Returned

\* The exception run_test leaves with, or Returned.
run_test(testcmd, testdir, tspec, outcome) ==
    IF outcome.kind = "not_started" THEN "FileNotFoundError"
    ELSE LET process == CompletedProcess(outcome) IN
         IF IsSet(tspec, "stdout") /\ tspec.stdout # process.stdout
         THEN "AssertionError"
         \* the check under `stderr = testspec.get("stderr")` tests stdout again
         ELSE IF IsSet(tspec, "stdout") /\ tspec.stdout # process.stdout
         THEN "AssertionError"
         ELSE IF IsSet(tspec, "exitCode")
                 /\ tspec.exitCode # process.returncode
         THEN "AssertionError"
         ELSE IF ~IsSet(tspec, "exitCode") /\ process.returncode # 0
         THEN "CalledProcessError"
         ELSE Returned

-----------------------------------------------------------------------------
(* The runner functions.  Each yields the command it built, whether it got *)
(* as far as subprocess.run, the files it wrote and how it left.           *)

MkCall(cmd, launched, wrote, exception) ==
    [cmd |-> cmd, launched |-> launched, wrote |-> wrote,
     exception |-> exception]

json_dumps(spec) == [json |-> spec]

run_deno_test(testmod, testdir, tspec, outcome) ==
    LET flags == <<"deno", "run", "--quiet", "--allow-all", "--unstable">> IN
    IF outcome.kind = "write_error"
    THEN MkCall(flags, FALSE, {}, "OSError")
    ELSE LET testcmd == flags \o <<abspath(".test.deno.ts")>>
                        \o <<json_dumps(tspec)>> \o <<testmod>>
         IN  MkCall(testcmd, TRUE, {abspath(".test.deno.ts")},
                    run_test(testcmd, testdir, tspec, outcome))

\* `filepath` is not defined in test_node: appending it raises NameError
test_node(testmod, testdir, tspec, outcome) ==
    LET flags == <<"node", "--no-warnings",
                   "--experimental-wasi-unstable-preview1",
                   "--experimental-wasm-bigint">> IN
    IF outcome.kind = "write_error"
    THEN MkCall(flags, FALSE, {}, "OSError")
    ELSE MkCall(flags \o <<abspath(".node.js")>> \o <<json_dumps(tspec)>>,
                FALSE, {abspath(".node.js")}, "NameError")

\* for key in d: testcmd.append(flag); testcmd.append(key + sep + d[key])
RECURSIVE AppendFlags(_, _, _, _, _)
AppendFlags(testcmd, flag, sep, d, keys) ==
    IF keys = <<>> THEN testcmd
    ELSE AppendFlags(
           Append(Append(testcmd, flag),
                  keys[1] \o sep \o DictGet(d, keys[1])),
           flag, sep, d, Tail(keys))

\* for arg in args: testcmd.append(arg)
RECURSIVE AppendArgs(_, _)
AppendArgs(testcmd, args) ==
    IF args = <<>> THEN testcmd
    ELSE AppendArgs(Append(testcmd, args[1]), Tail(args))

wasmer_testcmd(testmod, tspec) ==
    LET c1 == AppendFlags(<<"wasmer", "run">>, "--env", "=",
                          tspec.env, DictKeys(tspec.env))
        c2 == AppendFlags(c1, "--mapdir", "::",
                          tspec.preopens, DictKeys(tspec.preopens))
        c3 == Append(c2, testmod)
        c4 == IF Len(tspec.args) > 0 THEN Append(c3, "--") ELSE c3
    IN  AppendArgs(c4, tspec.args)

run_wasmer_test(testmod, testdir, tspec, outcome) ==
    LET testcmd == wasmer_testcmd(testmod, tspec)
    IN  MkCall(testcmd, TRUE, {},
               run_test(testcmd, testdir, tspec, outcome))

\* wasmtime_testcmd with the separator appended unconditionally
wasmtime_testcmd_separator(testmod, tspec) ==
    LET c1 == AppendFlags(<<"wasmtime", "run">>, "--env", "=",
                          tspec.env, DictKeys(tspec.env))
        c2 == AppendFlags(c1, "--mapdir", "::",
                          tspec.preopens, DictKeys(tspec.preopens))
        c3 == Append(c2, testmod)
    IN  AppendArgs(Append(c3, "--"), tspec.args)

wasmtime_testcmd(testmod, tspec) ==
    LET c1 == AppendFlags(<<"wasmtime", "run">>, "--env", "=",
                          tspec.env, DictKeys(tspec.env))
        c2 == AppendFlags(c1, "--mapdir", "::",
                          tspec.preopens, DictKeys(tspec.preopens))
        c3 == Append(c2, testmod)
        c4 == IF Len(tspec.args) > 0 THEN Append(c3, "--") ELSE c3
    IN  AppendArgs(c4, tspec.args)

run_wasmtime_test(testmod, testdir, tspec, outcome) ==
    LET testcmd == wasmtime_testcmd(testmod, tspec)
    IN  MkCall(testcmd, TRUE, {},
               run_test(testcmd, testdir, tspec, outcome))

\* test(os.path.abspath(testmod), testdir, tspec)
Apply(test, testmod, testdir, tspec, outcome) ==
    CASE test = "run_deno_test" ->
           run_deno_test(testmod, testdir, tspec, outcome)
      [] test = "test_node" ->
           test_node(testmod, testdir, tspec, outcome)
      [] test = "run_wasmer_test" ->
           run_wasmer_test(testmod, testdir, tspec, outcome)
      [] test = "run_wasmtime_test" ->
           run_wasmtime_test(testmod, testdir, tspec, outcome)

\* Only the functions that write a bootstrap script can fail writing it.
OutcomesOf(test) ==
    IF test \in {"run_deno_test", "test_node"}
    THEN Outcomes
    ELSE {o \in Outcomes : o.kind # "write_error"}

testrunners ==
    << <<"deno", "run_deno_test">>,
       <<"node", "run_deno_test">>,
       <<"wasmer", "run_wasmtime_test">>,
       <<"wasmtime", "run_wasmtime_test">> >>

-----------------------------------------------------------------------------
(* run_tests *)

dirname(n) == "/tmp/tmp" \o ToString(n)

\* tempfile.mkdtemp(): a directory that did not exist before
mkdtemp(dirs) ==
    dirname(CHOOSE n \in 1..(Cardinality(dirs) + 1) :
              /\ dirname(n) \notin dirs
              /\ \A m \in 1..(n - 1) : dirname(m) \in dirs)

\* try: test(...); status = "pass"  except Exception: status = "fail"
Classify(exception) == IF exception = Returned THEN "pass" ELSE "fail"

\* RecordResult with the assignment inside the try body, after the call
RecordResult_in_try(results, testmod, testcmd, testresult) ==
    IF testresult.status = "pass"
    THEN DictSet(results, testmod,
                 DictSet(DictGet(results, testmod), testcmd, testresult))
    ELSE results

\* finally: testresults[testmod][testcmd] = testresult
RecordResult(results, testmod, testcmd, testresult) ==
    DictSet(results, testmod,
            DictSet(DictGet(results, testmod), testcmd, testresult))

MkCell(kind, testmod, testcmd, testdir, tspec, outcome, call, status) ==
    [kind |-> kind, testmod |-> testmod, testcmd |-> testcmd,
     testdir |-> testdir, testspec |-> tspec, outcome |-> outcome,
     call |-> call, status |-> status]

NoCell ==
    MkCell("none", "", "", "", NoSpec, MkOutcome("none", 0, <<>>, <<>>),
           MkCall(<<>>, FALSE, {}, Returned), "None")

MkExc(kind, at, testmod, testcmd) ==
    [kind |-> kind, at |-> at, testmod |-> testmod, testcmd |-> testcmd]

NoExc == MkExc("", "", "", "")

NoReport == [rendered |-> FALSE, header |-> <<>>, rows |-> <<>>]

Init ==
    /\ tests \in {sorted(S) : S \in SUBSET (1..NumTests)}
    /\ pc = IF tests = <<>> THEN "render" ELSE "test"
    /\ ti = 1
    /\ ri = 1
    /\ testspec = NoSpec
    /\ testresults = <<>>
    /\ tempdirs = {}
    /\ written = {}
    /\ last = NoCell
    /\ exc = NoExc
    /\ report = NoReport

\* lines 153-157, the document opens and parses
LoadSpec ==
    /\ pc = "test"
    /\ testresults' = DictSet(testresults, tests[ti], <<>>)
    /\ testspec' \in SpecDocs
    /\ ri' = 1
    /\ pc' = "runner"
    /\ UNCHANGED <<tests, ti, tempdirs, written, last, exc, report>>

\* lines 153-157, open() or json.load() raises: nothing in run_tests or at
\* module level catches it, the interpreter exits before index.html is written
LoadSpecRaises ==
    /\ pc = "test"
    /\ testresults' = DictSet(testresults, tests[ti], <<>>)
    /\ \E k \in {"FileNotFoundError", "JSONDecodeError"} :
         exc' = MkExc(k, "load", tests[ti], "")
    /\ pc' = "crashed"
    /\ UNCHANGED <<tests, ti, ri, testspec, tempdirs, written, last, report>>

\* lines 162-163, mkdtemp() or copytree() raises outside the try statement
ProvisionRaises ==
    /\ pc = "runner"
    /\ LET testmod == tests[ti]
           testcmd == testrunners[ri][1]
           testdir == mkdtemp(tempdirs)
       IN  \/ /\ exc' = MkExc("OSError", "mkdtemp", testmod, testcmd)
              /\ UNCHANGED <<tempdirs, written>>
           \/ /\ exc' = MkExc("OSError", "copytree", testmod, testcmd)
              /\ tempdirs' = tempdirs \cup {testdir}
              /\ written' = written \cup
                   {[path |-> testdir, cell |-> <<testmod, testcmd>>]}
    /\ pc' = "crashed"
    /\ UNCHANGED <<tests, ti, ri, testspec, testresults, last, report>>

\* lines 159-176, one (test, runner) cell
RunCell ==
    /\ pc = "runner"
    /\ LET testmod == tests[ti]
           testcmd == testrunners[ri][1]
           test == testrunners[ri][2]
           testdir == mkdtemp(tempdirs)
       IN  \E outcome \in OutcomesOf(test) \cap RunOutcomes :
             LET call == Apply(test, abspath(testmod), testdir, testspec,
                               outcome)
                 status == Classify(call.exception)
             IN  /\ tempdirs' = tempdirs \cup {testdir}
                 /\ written' = written
                      \cup {[path |-> testdir, cell |-> <<testmod, testcmd>>]}
                      \cup {[path |-> f, cell |-> <<testmod, testcmd>>] :
                              f \in call.wrote}
                 /\ testresults' = RecordResult(testresults, testmod, testcmd,
                      [status |-> status, error |-> "None"])
                 /\ last' = MkCell("cell", testmod, testcmd, testdir,
                                   testspec, outcome, call, status)
    /\ IF ri < Len(testrunners)
       THEN /\ ri' = ri + 1
            /\ UNCHANGED <<ti, pc>>
       ELSE /\ ri' = 1
            /\ ti' = ti + 1
            /\ pc' = IF ti < Len(tests) THEN "test" ELSE "render"
    /\ UNCHANGED <<tests, testspec, exc, report>>

\* lines 235-270, index.html
Render ==
    /\ pc = "render"
    /\ report' =
         [rendered |-> TRUE,
          header |-> <<"Test">> \o DictKeys(testrunners),
          rows |-> [i \in 1..Len(testresults) |->
                     [test |-> testresults[i][1],
                      cells |-> [j \in 1..Len(testresults[i][2]) |->
                                  testresults[i][2][j][2].status]]]]
    /\ pc' = "done"
    /\ UNCHANGED <<tests, ti, ri, testspec, testresults, tempdirs, written,
                   last, exc>>

Next == LoadSpec \/ LoadSpecRaises \/ ProvisionRaises \/ RunCell \/ Render

Spec == Init /\ [][Next]_vars

-----------------------------------------------------------------------------
(* The runner functions called on their own, over a range of documents *)

SeqsUpTo(S, n) == UNION {[1..k -> S] : k \in 0..n}

Dicts(keys, vals, n) ==
    {d \in SeqsUpTo(keys \X vals, n) :
       \A i, j \in 1..Len(d) : d[i][1] = d[j][1] => i = j}

EnvKeys == <<"K1", "K2", "K3", "K4">>

GuestPaths == <<"/g1", "/g2", "/g3", "/g4">>

CallDocs ==
    { [d EXCEPT !.env = e, !.preopens = p, !.args = a] :
        d \in ExpectDocs,
        e \in Dicts({EnvKeys[i] : i \in 1..MaxEnv}, {"v"}, MaxEnv),
        p \in Dicts({GuestPaths[i] : i \in 1..MaxPreopens}, {"fixtures"},
                    MaxPreopens),
        a \in SeqsUpTo({"x", "--"}, MaxArgs) }

InitCall ==
    /\ tests = sorted({1})
    /\ pc = "call"
    /\ ti = 1
    /\ ri = 1
    /\ testspec \in CallDocs
    /\ testresults = <<>>
    /\ tempdirs = {mkdtemp({})}
    /\ written = {}
    /\ last = NoCell
    /\ exc = NoExc
    /\ report = NoReport

Call(test) ==
    /\ pc = "call"
    /\ \E outcome \in OutcomesOf(test) :
         LET testdir == CHOOSE d \in tempdirs : TRUE
             call == Apply(test, abspath(tests[ti]), testdir, testspec, outcome)
         IN  /\ last' = MkCell("call", tests[ti], test, testdir, testspec,
                               outcome, call, Classify(call.exception))
             /\ written' = {[path |-> f, cell |-> <<tests[ti], test>>] :
                              f \in call.wrote}
    /\ pc' = "called"
    /\ UNCHANGED <<tests, ti, ri, testspec, testresults, tempdirs, exc, report>>

CallDeno == Call("run_deno_test")

CallNode == Call("test_node")

CallWasmer == Call("run_wasmer_test")

CallWasmtime == Call("run_wasmtime_test")

NextCall == CallDeno \/ CallNode \/ CallWasmer \/ CallWasmtime

SpecCall == InitCall /\ [][NextCall]_vars

-----------------------------------------------------------------------------
(* Properties *)

Terminated == pc \in {"done", "crashed"}

Captured == CompletedProcess(last.outcome)

AdapterIds == DictKeys(testrunners)

\* The status recorded for a (test, adapter) pair, "None" when there is none.
Recorded(testmod, testcmd) ==
    IF DictHas(testresults, testmod)
       /\ DictHas(DictGet(testresults, testmod), testcmd)
    THEN DictGet(DictGet(testresults, testmod), testcmd).status
    ELSE "None"

\* C1: when exitCode, stdout and stderr are all present, a cell whose
\* process ran is pass if and only if the captured exit code, stdout and
\* stderr all equal the expected ones.
C1_PassIffAllMatch ==
    (/\ last.kind = "cell"
     /\ last.outcome.kind = "ran"
     /\ {"exitCode", "stdout", "stderr"} \subseteq last.testspec.present)
    => (last.status = "pass"
        <=> /\ Captured.returncode = last.testspec.exitCode
            /\ Captured.stdout = last.testspec.stdout
            /\ Captured.stderr = last.testspec.stderr)

\* C2: a cell whose engine binary could not be started is recorded as
\* error, never fail.
C2_UnavailableIsError ==
    (last.kind = "cell" /\ last.outcome.kind = "not_started")
    => /\ last.status = "error"
       /\ Recorded(last.testmod, last.testcmd) = "error"

\* C3: a rendered report has one row per test, in test order, and in each
\* row one cell per adapter, in adapter order, each carrying the non-null
\* verdict recorded for that (test, adapter) pair.
C3_MatrixComplete ==
    report.rendered =>
      /\ report.header = <<"Test">> \o AdapterIds
      /\ Len(report.rows) = Len(tests)
      /\ \A i \in 1..Len(tests) :
           /\ report.rows[i].test = tests[i]
           /\ Len(report.rows[i].cells) = Len(AdapterIds)
           /\ \A j \in 1..Len(AdapterIds) :
                /\ report.rows[i].cells[j] \in {"pass", "fail", "error"}
                /\ report.rows[i].cells[j] = Recorded(tests[i], AdapterIds[j])

\* C3 witness: a report of at least two tests is rendered after the last
\* cell's engine binary could not be started.
C3_Witness ==
    /\ report.rendered
    /\ Len(tests) >= 2
    /\ last.outcome.kind = "not_started"
    /\ last.status = "fail"
    /\ report.rows[Len(tests)].cells[Len(AdapterIds)] = "fail"

\* C4: when the specification document of a test cannot be loaded, the run
\* still ends with a rendered report holding a verdict for every cell of
\* every other test.
C4_SpecErrorAbortsOnlyRow ==
    (Terminated /\ exc.at = "load" /\ Len(tests) >= 2)
    => /\ report.rendered
       /\ \A i \in 1..Len(tests) : \A j \in 1..Len(AdapterIds) :
            tests[i] # exc.testmod
            => Recorded(tests[i], AdapterIds[j]) # "None"

\* C5: with exitCode absent, a cell whose process ended with a non-zero
\* exit status is never pass.
C5_NonZeroNeverPass ==
    (/\ last.kind = "call"
     /\ last.outcome.kind = "ran"
     /\ ~IsSet(last.testspec, "exitCode")
     /\ Captured.returncode # 0)
    => last.status \in {"fail", "error"}

\* C5 witness: exitCode absent, stdout present and matching, non-zero exit
\* status: only check_returncode() stands between the run and pass.
C5_Witness ==
    /\ last.kind = "call"
    /\ last.testcmd = "run_wasmtime_test"
    /\ last.outcome.kind = "ran"
    /\ ~IsSet(last.testspec, "exitCode")
    /\ IsSet(last.testspec, "stdout")
    /\ Captured.stdout = last.testspec.stdout
    /\ Captured.returncode # 0
    /\ last.call.exception = "CalledProcessError"
    /\ last.status = "fail"

\* C6: the command launched for the cell in column X starts with the
\* executable of engine X.
C6_ColumnRunsOwnEngine ==
    (last.kind = "cell" /\ last.call.launched)
    => last.call.cmd[1] = last.testcmd

\* The launch command of an engine with native filesystem-grant flags.
NativeShape(cmd, testmod, tspec) ==
    LET ne == Len(tspec.env)
        np == Len(tspec.preopens)
        p == 3 + 2 * ne + 2 * np
    IN  /\ Len(cmd) >= p
        /\ Cardinality({i \in 1..(p - 1) : cmd[i] = "--env"}) = ne
        /\ Cardinality({i \in 1..(p - 1) : cmd[i] = "--mapdir"}) = np
        /\ \A i \in 1..ne :
             /\ cmd[2 * i + 1] = "--env"
             /\ cmd[2 * i + 2] = tspec.env[i][1] \o "=" \o tspec.env[i][2]
        /\ \A i \in 1..np :
             /\ cmd[2 * ne + 2 * i + 1] = "--mapdir"
             /\ cmd[2 * ne + 2 * i + 2] =
                  tspec.preopens[i][1] \o "::" \o tspec.preopens[i][2]
        /\ cmd[p] = testmod
        /\ IF tspec.args = <<>>
           THEN Len(cmd) = p
           ELSE /\ Len(cmd) = p + 1 + Len(tspec.args)
                /\ cmd[p + 1] = "--"
                /\ SubSeq(cmd, p + 2, Len(cmd)) = tspec.args

\* C7: the command of run_wasmer_test and run_wasmtime_test holds one
\* --env KEY=VALUE per env entry, one --mapdir guest::host per preopen,
\* then the program path, then "--" and the args if and only if args is
\* non-empty.
C7_NativeLaunchCommand ==
    (last.kind = "call"
     /\ last.testcmd \in {"run_wasmer_test", "run_wasmtime_test"})
    => NativeShape(last.call.cmd, abspath(last.testmod), last.testspec)

\* C7 witness: run_wasmtime_test on a document with env and preopens and
\* no args, the program path last.
C7_Witness ==
    /\ last.kind = "call"
    /\ last.testcmd = "run_wasmtime_test"
    /\ Len(last.testspec.env) >= 1
    /\ Len(last.testspec.preopens) >= 1
    /\ last.testspec.args = <<>>
    /\ last.call.cmd[Len(last.call.cmd)] = abspath(last.testmod)

\* C8: when provisioning the sandbox of a cell fails, the run still ends
\* with a rendered report in which that cell is error.
C8_ProvisionErrorRecorded ==
    (Terminated /\ exc.at \in {"mkdtemp", "copytree"})
    => /\ report.rendered
       /\ Recorded(exc.testmod, exc.testcmd) = "error"

\* C9: no path the harness writes while executing one cell is written
\* while executing another cell.
C9_NoSharedFiles ==
    \A w1, w2 \in written : w1.path = w2.path => w1.cell = w2.cell

\* C10: when the run has ended no provisioned sandbox directory exists.
C10_SandboxesDisposed ==
    Terminated => tempdirs = {}

====
